---- MODULE Spec2Model ----
(***************************************************************************)
(* State-machine model of the Tonbot reward bot: the lowdb-backed store    *)
(* (storage.js), the Telegraf handlers of the three bot variants           *)
(* (index.js, its renamed twin, and the "strict" variant kept in           *)
(* admin.js), the /admin commands and the /device HTTP endpoint.           *)
(*                                                                         *)
(* Node runs every handler on one thread: a handler runs without           *)
(* interruption from one `await` to the next, so every action below is one *)
(* such synchronous section, and the handlers in flight interleave only at *)
(* their awaits.  lowdb 1.x (low(adapter), lowdb/adapters/FileSync) hands  *)
(* out references into its in-memory state: the object storage.getUser     *)
(* returned before an await is the stored record itself, so a read of      *)
(* user.balance or user.bonusClaimed after the await sees what other       *)
(* handlers wrote meanwhile.  A handler therefore keeps no copy of a user  *)
(* record; it keeps the user's id and reads `users`.                       *)
(*                                                                         *)
(* Money is counted in micro-TON: Number(x.toFixed(6)) keeps every stored  *)
(* balance a whole number of millionths.                                   *)
(***************************************************************************)
EXTENDS Integers, Sequences, FiniteSets, Bags, TLC

\* ------------------------------------------------------------ constants
NEW_USER_BONUS == 5000
REFERRAL_REWARD == 40000
TASK_REWARD == 25000
MIN_WITHDRAWAL == 200000

\* ADMIN_IDS is the array of admin ids the operator fills in. The model has
\* two admins, so that the loops over ADMIN_IDS run more than once; user 1 is
\* the admin who sends updates, user 4 only receives.
ADMIN_IDS == {1, 4}
Ids == {1, 2, 3, 4}
Variants == {"index", "part_000", "strict"}

\* --------------------------------------------------------------- bounds
\* handlers in flight at once
MaxInflight == 2
\* updates (commands, clicks, device callbacks) received in one run
MaxUpdates == 4
\* submissions stored
MaxSubs == 1
\* verification tokens issued
MaxTokens == 2

SubIds == 1..MaxSubs

VARIABLES
  users,             \* db.users: id -> record, defined for the stored ids
  tasks,             \* ids of db.tasks
  submissions,       \* db.submissions, in push order
  nextTaskId,        \* db.nextTaskId
  nextSubmissionId,  \* db.nextSubmissionId
  nextToken,         \* the next value crypto.randomBytes yields
  handlers,          \* the handlers in flight: a bag of continuations
  variant,           \* which of the three bots runs
  nUpdates,          \* updates received so far
  last,              \* the step just taken: its handler, input and reply
  audit              \* history: what was credited, paid out and decided

db == <<users, tasks, submissions, nextTaskId, nextSubmissionId, nextToken>>
vars == <<users, tasks, submissions, nextTaskId, nextSubmissionId, nextToken,
          handlers, variant, nUpdates, last, audit>>

\* ---------------------------------------------------------------- store
NoHash == <<>>

NewUser ==
  [balance |-> 0, wallet |-> "", referrals |-> 0, deviceHash |-> NoHash,
   isBanned |-> FALSE, bonusClaimed |-> FALSE, pendingDeviceToken |-> 0,
   referredBy |-> 0]

HasUser(id) == id \in DOMAIN users

\* Object.keys(db.users): integer-like keys come out in ascending order.
RECURSIVE KeysOf(_)
KeysOf(S) ==
  IF S = {} THEN <<>>
  ELSE LET m == CHOOSE x \in S : \A y \in S : x <= y
       IN <<m>> \o KeysOf(S \ {m})

UserKeys == KeysOf(DOMAIN users)

\* the first key of the scan `keys` that lies in Hits, 0 (null) when none does
FirstKey(keys, Hits) ==
  LET at == {i \in 1..Len(keys) : keys[i] \in Hits}
  IN IF at = {} THEN 0
     ELSE keys[CHOOSE i \in at : \A j \in at : i <= j]

findUserByDeviceHash(hash) ==
  IF hash = NoHash THEN 0
  ELSE FirstKey(UserKeys, {k \in DOMAIN users : users[k].deviceHash = hash})

findUserByPendingToken(token) ==
  IF token = 0 THEN 0
  ELSE FirstKey(UserKeys, {k \in DOMAIN users : users[k].pendingDeviceToken = token})

getSubmission(sid) ==
  IF \E i \in 1..Len(submissions) : submissions[i].id = sid
  THEN CHOOSE i \in 1..Len(submissions) :
         /\ submissions[i].id = sid
         /\ \A j \in 1..(i - 1) : submissions[j].id # sid
  ELSE 0

\* Number((balance + amount).toFixed(6)), in micro-TON
AddFixed6(balance, amount) == balance + amount

\* ------------------------------------------------------------ isMember
\* What the await on bot.telegram.getChatMember gives: the status of the chat
\* member that Telegram returns, or "throws" (the bot is no admin of the
\* channel, the channel is wrong, the request fails).
ChatMemberAnswers ==
  {"creator", "administrator", "member", "left", "throws"}

\* an isMember whose catch block answers true
isMemberFailOpen(answer) ==
  answer \in {"creator", "administrator", "member", "throws"}

\* try { return [...].includes(info.status) } catch (e) { return false }
isMember(answer) == answer \in {"creator", "administrator", "member"}

\* what a step records of isMember's answer
MemberIo(answer) ==
  IF isMember(answer) THEN "member"
  ELSE IF answer = "throws" THEN "getChatMember throws"
  ELSE "not member"

\* ------------------------------------------------------------- handlers
Idle ==
  [op |-> "idle", pc |-> "idle", uid |-> 0, arg |-> 0, act |-> "",
   memberOk |-> FALSE, verified |-> FALSE, hadUser |-> FALSE, amount |-> 0,
   sid |-> 0, todo |-> <<>>, lost |-> 0]

NoStep ==
  [op |-> "", pc |-> "", uid |-> 0, arg |-> 0, act |-> "", io |-> "", text |-> "",
   fp |-> NoHash, lost |-> 0]

StepOf(c, io, text) ==
  [op |-> c.op, pc |-> c.pc, uid |-> c.uid, arg |-> c.arg, act |-> c.act,
   io |-> io, text |-> text, fp |-> NoHash, lost |-> c.lost]

\* In the operators below h is the continuation being resumed (Idle when the
\* update has just arrived and none is in flight for it yet) and c is the
\* handler's state as it runs.
Waiting == BagToSet(handlers)

\* the handler returns (or throws)
Finish(h, c, io, text) ==
  /\ handlers' = handlers (-) SetToBag({h})
  /\ last' = StepOf(c, io, text)

\* the handler stops at an await
Await(h, c, pc, io) ==
  /\ handlers' = (handlers (-) SetToBag({h})) (+) SetToBag({[c EXCEPT !.pc = pc]})
  /\ last' = StepOf(c, io, "")

Quiet == handlers = EmptyBag


\* ---------------------------------------------------------------- audit
\* History the store does not keep, recorded as the handlers act:
\*   credited[u]  micro-TON added to u's balance (bonus, referral, reward)
\*   paidOut[u]   micro-TON sent to u by /withdraw transfers that succeeded
\*   bonus[u]     new-user bonus credits applied to u
\*   reward[s]    task-reward credits applied for submission s
\*   approves[s], rejects[s]  admin decisions on s that ran their decision
\*   won[s]       Pending -> terminal transitions performed on s
\*   refIncs[n]   referral-counter increments made for new user n's attribution
\*   refRail[n]   rail transfers that succeeded for n's attribution
\*   refLedger[n] ledger credits made for n's attribution
\*   refTo[n]     the users whose counter or balance n's attribution changed
\*   resolved     the tokens a /device request has resolved to a user
\*   asked        <<s, a>>: a review request for submission s was sent to admin a
\*   railFailed   the users a /withdraw of whom ended on a rail error
AuditInit(bal) ==
  [credited |-> bal,
   paidOut |-> [u \in Ids |-> 0],
   bonus |-> [u \in Ids |-> 0],
   reward |-> [s \in SubIds |-> 0],
   approves |-> [s \in SubIds |-> 0],
   rejects |-> [s \in SubIds |-> 0],
   won |-> [s \in SubIds |-> 0],
   refIncs |-> [u \in Ids |-> 0],
   refRail |-> [u \in Ids |-> 0],
   refLedger |-> [u \in Ids |-> 0],
   refTo |-> [u \in Ids |-> {}],
   resolved |-> {},
   asked |-> {},
   railFailed |-> {}]

Counted(c, field) == IF c.uid \in ADMIN_IDS THEN field + 1 ELSE field

\* ------------------------------------------------------------ /withdraw
\* a handler that lets every positive balance through to the rail
WithdrawEnterAnyPositive(h, c) ==
  /\ UNCHANGED <<db, audit>>
  /\ IF ~HasUser(c.uid) THEN Finish(h, c, "", "Please /start first.")
     ELSE IF users[c.uid].isBanned THEN Finish(h, c, "", "Your account is banned.")
     ELSE IF users[c.uid].wallet = "" THEN Finish(h, c, "", "Set your TON wallet first")
     ELSE IF users[c.uid].balance <= 0 THEN Finish(h, c, "", "Minimum withdrawal")
     ELSE Await(h, c, "wd_check", "")

\* bot.command('withdraw'), up to its first await
WithdrawEnter(h, c) ==
  /\ UNCHANGED <<db, audit>>
  /\ IF ~HasUser(c.uid) THEN Finish(h, c, "", "Please /start first.")
     ELSE IF users[c.uid].isBanned THEN Finish(h, c, "", "Your account is banned.")
     ELSE IF users[c.uid].wallet = "" THEN Finish(h, c, "", "Set your TON wallet first")
     ELSE IF users[c.uid].balance < MIN_WITHDRAWAL THEN Finish(h, c, "", "Minimum withdrawal")
     ELSE Await(h, c, "wd_check", "")

\* what xrocket.checkBalance() may answer: it throws, or reports a balance
CheckBalanceResults == {-1, 0, 1000000}

\* the zero-then-transfer ordering: the balance is cleared before sendTON
WithdrawCheckedZeroFirst(h, r) ==
  LET c == h IN
  /\ c.op = "withdraw" /\ c.pc = "wd_check"
  /\ UNCHANGED <<tasks, submissions, nextTaskId, nextSubmissionId, nextToken, audit>>
  /\ IF r < 0
     THEN /\ UNCHANGED users
          /\ Finish(h, c, "checkBalance throws", "Withdrawal failed")
     ELSE IF r < users[c.uid].balance
     THEN /\ UNCHANGED users
          /\ Finish(h, c, "checkBalance low", "Bot XRocket balance is insufficient")
     ELSE /\ users' = [users EXCEPT ![c.uid].balance = 0]
          /\ Await(h, [c EXCEPT !.amount = users[c.uid].balance], "wd_send",
                   "checkBalance ok")

\* a check that goes on to sendTON whatever balance the rail reports
WithdrawCheckedNoRailTest(h, r) ==
  LET c == h IN
  /\ c.op = "withdraw" /\ c.pc = "wd_check"
  /\ UNCHANGED <<db, audit>>
  /\ IF r < 0 THEN Finish(h, c, "checkBalance throws", "Withdrawal failed")
     ELSE Await(h, [c EXCEPT !.amount = users[c.uid].balance], "wd_send", "checkBalance ok")

\* resumed by checkBalance: r = -1 stands for the throw
WithdrawChecked(h, r) ==
  LET c == h IN
  /\ c.op = "withdraw" /\ c.pc = "wd_check"
  /\ UNCHANGED db
  /\ IF r < 0
     THEN /\ audit' = [audit EXCEPT !.railFailed = @ \cup {c.uid}]
          /\ Finish(h, c, "checkBalance throws", "Withdrawal failed")
     ELSE IF r < users[c.uid].balance
     THEN /\ UNCHANGED audit
          /\ Finish(h, c, "checkBalance low", "Bot XRocket balance is insufficient")
     ELSE /\ UNCHANGED audit
          /\ Await(h, [c EXCEPT !.amount = users[c.uid].balance], "wd_send",
                   "checkBalance ok")

\* a commit that subtracts the amount sent instead of storing zero
WithdrawSentSubtract(h, ok) ==
  LET c == h IN
  /\ c.op = "withdraw" /\ c.pc = "wd_send"
  /\ UNCHANGED <<tasks, submissions, nextTaskId, nextSubmissionId, nextToken>>
  /\ IF ok
     THEN /\ users' = [users EXCEPT ![c.uid].balance = @ - c.amount]
          /\ audit' = [audit EXCEPT !.paidOut[c.uid] = @ + c.amount]
          /\ Finish(h, c, "sendTON ok", "Withdrawal processed")
     ELSE /\ UNCHANGED <<users, audit>>
          /\ Finish(h, c, "sendTON throws", "Withdrawal failed")

\* a transfer whose failure leaves the amount held back: the balance is
\* cleared although nothing was sent
WithdrawSentKeepsReservation(h, ok) ==
  LET c == h IN
  /\ c.op = "withdraw" /\ c.pc = "wd_send"
  /\ UNCHANGED <<tasks, submissions, nextTaskId, nextSubmissionId, nextToken>>
  /\ users' = [users EXCEPT ![c.uid].balance = 0]
  /\ IF ok
     THEN /\ audit' = [audit EXCEPT !.paidOut[c.uid] = @ + c.amount]
          /\ Finish(h, c, "sendTON ok", "Withdrawal processed")
     ELSE /\ audit' = [audit EXCEPT !.railFailed = @ \cup {c.uid}]
          /\ Finish(h, c, "sendTON throws", "Withdrawal failed")

\* resumed by sendTON: the transfer went through (ok) or threw
WithdrawSent(h, ok) ==
  LET c == h IN
  /\ c.op = "withdraw" /\ c.pc = "wd_send"
  /\ UNCHANGED <<tasks, submissions, nextTaskId, nextSubmissionId, nextToken>>
  /\ IF ok
     THEN /\ users' = [users EXCEPT ![c.uid].balance = 0]
          /\ audit' = [audit EXCEPT !.paidOut[c.uid] = @ + c.amount]
          /\ Finish(h, c, "sendTON ok", "Withdrawal processed")
     ELSE /\ UNCHANGED users
          /\ audit' = [audit EXCEPT !.railFailed = @ \cup {c.uid}]
          /\ Finish(h, c, "sendTON throws", "Withdrawal failed")

\* ------------------------------------------------------------ decisions
\* a status test that never finds a submission processed
NeverProcessed(sub) == FALSE

\* if (sub.status !== 'pending'): the decision is refused
AlreadyProcessed(sub) == sub.status # "pending"

\* bookkeeping that records the status only
MarkStatusOnly(sub, status, by) == [sub EXCEPT !.status = status]

\* sub.status = ...; sub.processedBy = fromId; sub.processedAt = Date.now()
MarkProcessed(sub, status, by) ==
  [sub EXCEPT !.status = status, !.processedBy = by, !.processedAt = "now"]

\* the approve_/reject_ branch of bot.on('callback_query'), up to the await on
\* the notification to the submitter
Decide(h, c) ==
  LET i == getSubmission(c.arg) IN
  /\ UNCHANGED <<tasks, nextTaskId, nextSubmissionId, nextToken>>
  /\ IF i = 0
     THEN /\ UNCHANGED <<users, submissions, audit>>
          /\ Finish(h, c, "", "Submission not found")
     ELSE IF AlreadyProcessed(submissions[i])
     THEN /\ UNCHANGED <<users, submissions>>
          /\ audit' = [audit EXCEPT
               !.approves[c.arg] = IF c.act = "approve" THEN Counted(c, @) ELSE @,
               !.rejects[c.arg] = IF c.act = "reject" THEN Counted(c, @) ELSE @]
          /\ Finish(h, c, "", "Already processed.")
     ELSE IF c.act = "approve"
     THEN LET to == submissions[i].userId IN
          IF ~HasUser(to)
          THEN /\ UNCHANGED <<users, submissions>>
               /\ audit' = [audit EXCEPT !.approves[c.arg] = Counted(c, @)]
               /\ Finish(h, c, "", "User not found.")
          ELSE /\ users' = [users EXCEPT ![to].balance = AddFixed6(@, TASK_REWARD)]
               /\ submissions' = [submissions EXCEPT ![i] =
                    MarkProcessed(@, "approved", c.uid)]
               /\ audit' = [audit EXCEPT !.approves[c.arg] = Counted(c, @),
                                         !.credited[to] = @ + TASK_REWARD,
                                         !.reward[c.arg] = @ + 1,
                                         !.won[c.arg] = @ + 1]
               /\ Await(h, c, "dec_notify", "")
     ELSE /\ UNCHANGED users
          /\ submissions' = [submissions EXCEPT ![i] =
               MarkProcessed(@, "rejected", c.uid)]
          /\ audit' = [audit EXCEPT !.rejects[c.arg] = Counted(c, @),
                                    !.won[c.arg] = @ + 1]
          /\ Await(h, c, "dec_notify", "")

\* a handler that takes the decision back when the submitter cannot be told
DecisionNotifiedRollback(h, ok) ==
  LET c == h
      i == getSubmission(c.arg)
  IN
  /\ c.op \in {"callback", "admin"} /\ c.pc = "dec_notify"
  /\ UNCHANGED <<users, tasks, nextTaskId, nextSubmissionId, nextToken, audit>>
  /\ IF ok
     THEN /\ UNCHANGED submissions
          /\ Finish(h, c, "sendMessage ok", "decided")
     ELSE /\ submissions' = [submissions EXCEPT ![i] =
               [@ EXCEPT !.status = "pending", !.processedBy = 0, !.processedAt = ""]]
          /\ Finish(h, c, "sendMessage throws", "decided")

\* resumed by the sendMessage to the submitter, whose failure the handler
\* swallows (try { ... } catch (e) {}); what follows writes nothing
DecisionNotified(h, ok) ==
  LET c == h IN
  /\ c.op \in {"callback", "admin"} /\ c.pc = "dec_notify"
  /\ UNCHANGED <<db, audit>>
  /\ Finish(h, c, IF ok THEN "sendMessage ok" ELSE "sendMessage throws", "decided")

\* a button that decides nothing: show_tasks, show_balance, verify, anything else
OtherButton(h, c) ==
  /\ UNCHANGED <<db, audit>>
  /\ Finish(h, c, "", "answerCbQuery")

Buttons(h, c) ==
  IF c.act \in {"approve", "reject"} THEN Decide(h, c) ELSE OtherButton(h, c)

\* who may go past the handler's own check to the buttons: index.js and its twin
IsAdminOnly(c) == c.uid \in ADMIN_IDS

\* bot.on('callback_query') of index.js and of its twin, which run to the end
\* without an await before the decision
CallbackLenient(h, c) ==
  IF ~IsAdminOnly(c)
  THEN /\ UNCHANGED <<db, audit>>
       /\ IF variant = "part_000" /\ c.act = "verify"
          THEN Finish(h, c, "", "Use /verify to get a verification link.")
          ELSE Finish(h, c, "", "Only admins can use this.")
  ELSE Buttons(h, c)

\* the strict bot's check after its await on isMember: admins pass, and so does
\* every other user who is a member with a recorded deviceHash
StrictGateOpen(c, member) ==
  \/ c.uid \in ADMIN_IDS
  \/ (member /\ c.hadUser /\ users[c.uid].deviceHash # NoHash)

\* bot.on('callback_query') of the strict bot: reads the user, awaits isMember
CallbackStrictEnter(h, c) ==
  /\ UNCHANGED <<db, audit>>
  /\ Await(h, [c EXCEPT !.hadUser = HasUser(c.uid)], "cb_member", "")

CallbackStrictResumed(h, answer) ==
  LET c == h
      member == isMember(answer)
  IN
  /\ c.op = "callback" /\ c.pc = "cb_member"
  /\ IF StrictGateOpen(c, member)
     THEN Buttons(h, c)
     ELSE /\ UNCHANGED <<db, audit>>
          /\ Finish(h, c, "", "You must verify and join the channel first.")

CallbackEnter(h, c) ==
  IF variant = "strict" THEN CallbackStrictEnter(h, c) ELSE CallbackLenient(h, c)

\* --------------------------------------------------------------- /admin
\* '/admin approve <id>' of admin.register, up to the await on the notification
\* an approve that credits the reward and leaves the submission Pending
AdminApproveCreditOnly(h, c) ==
  LET i == getSubmission(c.arg) IN
  /\ UNCHANGED <<tasks, submissions, nextTaskId, nextSubmissionId, nextToken>>
  /\ IF i = 0 \/ ~HasUser(submissions[i].userId)
     THEN /\ UNCHANGED <<users, audit>>
          /\ Finish(h, c, "", "Submission not found.")
     ELSE LET to == submissions[i].userId IN
          /\ users' = [users EXCEPT ![to].balance = AddFixed6(@, TASK_REWARD)]
          /\ audit' = [audit EXCEPT !.approves[c.arg] = @ + 1,
                                    !.credited[to] = @ + TASK_REWARD,
                                    !.reward[c.arg] = @ + 1]
          /\ Finish(h, c, "", "Submission approved.")

AdminApprove(h, c) ==
  LET i == getSubmission(c.arg) IN
  /\ UNCHANGED <<tasks, nextTaskId, nextSubmissionId, nextToken>>
  /\ IF i = 0
     THEN /\ UNCHANGED <<users, submissions, audit>>
          /\ Finish(h, c, "", "Submission not found.")
     ELSE IF AlreadyProcessed(submissions[i])
     THEN /\ UNCHANGED <<users, submissions>>
          /\ audit' = [audit EXCEPT !.approves[c.arg] = @ + 1]
          /\ Finish(h, c, "", "Submission already processed.")
     ELSE LET to == submissions[i].userId IN
          IF ~HasUser(to)
          THEN /\ UNCHANGED <<users, submissions>>
               /\ audit' = [audit EXCEPT !.approves[c.arg] = @ + 1]
               /\ Finish(h, c, "", "Submission user not found.")
          ELSE /\ users' = [users EXCEPT ![to].balance = AddFixed6(@, TASK_REWARD)]
               /\ submissions' = [submissions EXCEPT ![i] =
                    MarkProcessed(@, "approved", c.uid)]
               /\ audit' = [audit EXCEPT !.approves[c.arg] = @ + 1,
                                         !.credited[to] = @ + TASK_REWARD,
                                         !.reward[c.arg] = @ + 1,
                                         !.won[c.arg] = @ + 1]
               /\ Await(h, c, "dec_notify", "")

\* '/admin ban <user_id>'
\* a ban command that flips the flag
AdminBanToggles(h, c) ==
  /\ UNCHANGED <<tasks, submissions, nextTaskId, nextSubmissionId, nextToken, audit>>
  /\ IF ~HasUser(c.arg)
     THEN /\ UNCHANGED users
          /\ Finish(h, c, "", "User not found.")
     ELSE /\ users' = [users EXCEPT ![c.arg].isBanned = ~@]
          /\ Finish(h, c, "", "User banned.")

AdminBan(h, c) ==
  /\ UNCHANGED <<tasks, submissions, nextTaskId, nextSubmissionId, nextToken, audit>>
  /\ IF ~HasUser(c.arg)
     THEN /\ UNCHANGED users
          /\ Finish(h, c, "", "User not found.")
     ELSE /\ users' = [users EXCEPT ![c.arg].isBanned = TRUE]
          /\ Finish(h, c, "", "User banned.")

\* '/admin addtask <desc>': storage.addTask
AdminAddTask(h, c) ==
  /\ tasks' = tasks \cup {nextTaskId}
  /\ nextTaskId' = nextTaskId + 1
  /\ UNCHANGED <<users, submissions, nextSubmissionId, nextToken, audit>>
  /\ Finish(h, c, "", "Task added.")

\* the loop of '/admin broadcast' over the ids c.todo still to be written to,
\* then the closing reply; c.lost counts the messages that failed
BroadcastFanOut(h, c, io) ==
  IF c.todo = <<>>
  THEN Finish(h, c, io, "Broadcast sent")
  ELSE Await(h, [c EXCEPT !.todo = Tail(c.todo)], "bc_send", io)

\* '/admin broadcast <text>': Object.keys(storage.getAllUsers())
AdminBroadcast(h, c) ==
  /\ UNCHANGED <<db, audit>>
  /\ BroadcastFanOut(h, [c EXCEPT !.todo = UserKeys], "")

\* the await on sendMessage returns or throws inside the loop's try/catch
BroadcastAnswered(h, ok) ==
  LET c == h IN
  /\ c.op = "admin" /\ c.pc = "bc_send"
  /\ UNCHANGED <<db, audit>>
  /\ IF ok THEN BroadcastFanOut(h, c, "sendMessage ok")
     ELSE BroadcastFanOut(h, [c EXCEPT !.lost = @ + 1], "sendMessage throws")

\* an /admin handler without the ADMIN_IDS test
AdminEnterNoCheck(h, c) ==
  IF c.act = "broadcast" THEN AdminBroadcast(h, c)
  ELSE IF c.act = "ban" THEN AdminBan(h, c)
  ELSE IF c.act = "approve" THEN AdminApprove(h, c)
  ELSE AdminAddTask(h, c)

\* bot.hears(/^\/admin\s+(.+)$/i)
AdminEnter(h, c) ==
  IF c.uid \notin ADMIN_IDS
  THEN /\ UNCHANGED <<db, audit>>
       /\ Finish(h, c, "", "Unauthorized.")
  ELSE IF c.act = "broadcast" THEN AdminBroadcast(h, c)
  ELSE IF c.act = "ban" THEN AdminBan(h, c)
  ELSE IF c.act = "approve" THEN AdminApprove(h, c)
  ELSE AdminAddTask(h, c)

\* ------------------------------------------------------ /submit, /wallet
\* storage.getTask
getTask(id) == id \in tasks

\* an addSubmission that leaves nextSubmissionId as it is
addSubmissionSameId(sub) ==
  /\ submissions' = Append(submissions, [sub EXCEPT !.id = nextSubmissionId])
  /\ nextSubmissionId' = nextSubmissionId

\* storage.addSubmission: the id is nextSubmissionId, which then grows by one
addSubmission(sub) ==
  /\ submissions' = Append(submissions, [sub EXCEPT !.id = nextSubmissionId])
  /\ nextSubmissionId' = nextSubmissionId + 1

\* for (const aid of ADMIN_IDS), in array order
AdminList == KeysOf(ADMIN_IDS)

\* the loop of /submit over the admins c.todo still to be asked: sendPhoto to
\* the next one and await it, or, with none left, the closing reply; c.lost
\* counts the requests of this handler that have failed
ReviewFanOut(h, c, io) ==
  IF c.todo = <<>>
  THEN /\ UNCHANGED audit
       /\ Finish(h, c, io, "Submission received.")
  ELSE /\ audit' = [audit EXCEPT !.asked = @ \cup {<<c.sid, Head(c.todo)>>}]
       /\ Await(h, [c EXCEPT !.todo = Tail(c.todo)], "sub_notify", io)

\* bot.command('submit') with a task id and a photo
SubmitEnter(h, c) ==
  /\ UNCHANGED <<users, tasks, nextTaskId, nextToken>>
  /\ IF ~getTask(c.arg)
     THEN /\ UNCHANGED <<submissions, nextSubmissionId, audit>>
          /\ Finish(h, c, "", "Task not found.")
     ELSE /\ addSubmission([id |-> 0, userId |-> c.uid, taskId |-> c.arg,
                            status |-> "pending", processedBy |-> 0,
                            processedAt |-> ""])
          /\ ReviewFanOut(h, [c EXCEPT !.sid = nextSubmissionId, !.todo = AdminList], "")

\* a fan-out whose first failure ends the handler
ReviewAnsweredStopOnThrow(h, ok) ==
  LET c == h IN
  /\ c.op = "submit" /\ c.pc = "sub_notify"
  /\ UNCHANGED db
  /\ IF ok THEN ReviewFanOut(h, c, "sendPhoto ok")
     ELSE /\ UNCHANGED audit
          /\ Finish(h, [c EXCEPT !.lost = @ + 1], "sendPhoto throws", "")

\* the await on sendPhoto returns or throws inside the loop's try/catch
ReviewAnswered(h, ok) ==
  LET c == h IN
  /\ c.op = "submit" /\ c.pc = "sub_notify"
  /\ UNCHANGED db
  /\ IF ok THEN ReviewFanOut(h, c, "sendPhoto ok")
     ELSE ReviewFanOut(h, [c EXCEPT !.lost = @ + 1], "sendPhoto throws")

\* bot.command('wallet') with an address of 8 characters or more
WalletEnter(h, c) ==
  /\ UNCHANGED <<tasks, submissions, nextTaskId, nextSubmissionId, nextToken, audit>>
  /\ IF ~HasUser(c.uid)
     THEN /\ UNCHANGED users
          /\ Finish(h, c, "", "Please /start first.")
     ELSE /\ users' = [users EXCEPT ![c.uid].wallet = "wallet"]
          /\ Finish(h, c, "", "Wallet saved.")


\* ---------------------------------------------------------------- /start
\* a guard that does not look at bonusClaimed
BonusDueUnchecked(user, memberOk, verified) == memberOk /\ verified

\* the guard of the bonus in ensureNewUserBonusAndReferral
BonusDue(user, memberOk, verified) == ~user.bonusClaimed /\ memberOk /\ verified

\* refUser.balance = Number((refUser.balance + REFERRAL_REWARD).toFixed(6))
CreditReferrer(n, r) ==
  /\ users' = [users EXCEPT ![r].balance = AddFixed6(@, REFERRAL_REWARD)]
  /\ audit' = [audit EXCEPT !.credited[r] = @ + REFERRAL_REWARD,
                            !.refLedger[n] = @ + 1,
                            !.refTo[n] = @ \cup {r}]

\* refUser.referrals = (refUser.referrals || 0) + 1
CountReferral(n, r) ==
  /\ users' = [users EXCEPT ![r].referrals = @ + 1]
  /\ audit' = [audit EXCEPT !.refIncs[n] = @ + 1, !.refTo[n] = @ \cup {r}]

\* ensureNewUserBonusAndReferral up to its await on isMember; `base` is the
\* user table it starts from
EnsureEnter(h, c, base) ==
  /\ UNCHANGED <<tasks, submissions, nextTaskId, nextSubmissionId, nextToken, audit>>
  /\ IF c.uid \in DOMAIN base /\ base[c.uid].isBanned
     THEN /\ users' = base
          /\ Finish(h, c, "", "Your account is banned.")
     ELSE /\ users' = IF c.uid \in DOMAIN base THEN base ELSE base @@ (c.uid :> NewUser)
          /\ Await(h, c, "st_member", "")

\* resumed by isMember: the bonus, or the instructions, or 'Welcome back!'
EnsureMember(h, answer) ==
  LET c == h
      member == isMember(answer)
      user == users[c.uid]
      verified == user.deviceHash # NoHash
  IN
  /\ c.op = "start" /\ c.pc = "st_member"
  /\ UNCHANGED <<tasks, submissions, nextTaskId, nextSubmissionId, nextToken>>
  /\ IF BonusDue(user, member, verified)
     THEN /\ users' = [users EXCEPT ![c.uid].balance = AddFixed6(@, NEW_USER_BONUS),
                                    ![c.uid].bonusClaimed = TRUE]
          /\ audit' = [audit EXCEPT !.credited[c.uid] = @ + NEW_USER_BONUS,
                                    !.bonus[c.uid] = @ + 1]
          /\ Await(h, [c EXCEPT !.memberOk = member, !.verified = verified],
                   "st_reply", "member")
     ELSE IF ~member \/ ~verified
     THEN /\ UNCHANGED <<users, audit>>
          /\ Finish(h, c, MemberIo(answer),
                    "To receive the new-user bonus you must")
     ELSE /\ UNCHANGED <<users, audit>>
          /\ Await(h, [c EXCEPT !.memberOk = member, !.verified = verified],
                   "st_back", "member")

\* a referral block without the refId !== tgId test
AttributesSelfToo(c) ==
  /\ c.arg # 0
  /\ HasUser(c.arg)
  /\ c.memberOk
  /\ c.verified
  /\ users[c.uid].referredBy = 0

\* a referral block without the !user.referredBy test
AttributesAgain(c) ==
  /\ c.arg # 0
  /\ c.arg # c.uid
  /\ HasUser(c.arg)
  /\ c.memberOk
  /\ c.verified

\* whether the referral block attributes: a code, not the sender's own, of a
\* stored user, and no referrer recorded yet
Attributes(c) ==
  /\ c.arg # 0
  /\ c.arg # c.uid
  /\ HasUser(c.arg)
  /\ c.memberOk
  /\ c.verified
  /\ users[c.uid].referredBy = 0

\* resumed by the reply that announced the bonus (st_reply) or by the reply
\* 'Welcome back!' (st_back): the referral block up to its first await
EnsureReplied(h, ok) ==
  LET c == h IN
  /\ c.op = "start" /\ c.pc \in {"st_reply", "st_back"}
  /\ UNCHANGED <<tasks, submissions, nextTaskId, nextSubmissionId, nextToken>>
  /\ IF ~ok
     THEN /\ UNCHANGED <<users, audit>>
          /\ Finish(h, c, "reply throws", "")
     ELSE IF ~Attributes(c)
     THEN /\ UNCHANGED <<users, audit>>
          /\ Finish(h, c, "", "menu")
     ELSE IF users[c.arg].wallet # ""
     THEN /\ users' = [users EXCEPT ![c.uid].referredBy = c.arg]
          /\ UNCHANGED audit
          /\ Await(h, c, "ref_check", "")
     ELSE /\ users' = [users EXCEPT ![c.uid].referredBy = c.arg,
                                    ![c.arg].balance = AddFixed6(@, REFERRAL_REWARD)]
          /\ audit' = [audit EXCEPT !.credited[c.arg] = @ + REFERRAL_REWARD,
                                    !.refLedger[c.uid] = @ + 1,
                                    !.refTo[c.uid] = @ \cup {c.arg}]
          /\ Await(h, c, "ref_notify", "")

\* resumed by checkBalance inside the try
ReferralChecked(h, r) ==
  LET c == h IN
  /\ c.op = "start" /\ c.pc = "ref_check"
  /\ UNCHANGED <<tasks, submissions, nextTaskId, nextSubmissionId, nextToken>>
  /\ IF r < 0
     THEN /\ CreditReferrer(c.uid, c.arg)
          /\ Await(h, c, "ref_notify", "checkBalance throws")
     ELSE IF r >= REFERRAL_REWARD
     THEN /\ UNCHANGED <<users, audit>>
          /\ Await(h, c, "ref_send", "checkBalance ok")
     ELSE /\ CreditReferrer(c.uid, c.arg)
          /\ Await(h, c, "ref_notify_try", "checkBalance low")

\* resumed by sendTON inside the try
ReferralSent(h, ok) ==
  LET c == h IN
  /\ c.op = "start" /\ c.pc = "ref_send"
  /\ UNCHANGED <<tasks, submissions, nextTaskId, nextSubmissionId, nextToken>>
  /\ IF ok
     THEN /\ UNCHANGED users
          /\ audit' = [audit EXCEPT !.refRail[c.uid] = @ + 1]
          /\ Await(h, c, "ref_notify_try", "sendTON ok")
     ELSE /\ CreditReferrer(c.uid, c.arg)
          /\ Await(h, c, "ref_notify", "sendTON throws")

\* resumed by the sendMessage to the referrer that stands inside the try: when
\* it throws, the catch credits the ledger and notifies again
ReferralNotifiedInTry(h, ok) ==
  LET c == h IN
  /\ c.op = "start" /\ c.pc = "ref_notify_try"
  /\ UNCHANGED <<tasks, submissions, nextTaskId, nextSubmissionId, nextToken>>
  /\ IF ok
     THEN /\ CountReferral(c.uid, c.arg)
          /\ Finish(h, c, "sendMessage ok", "menu")
     ELSE /\ CreditReferrer(c.uid, c.arg)
          /\ Await(h, c, "ref_notify", "sendMessage throws")

\* resumed by a sendMessage to the referrer that stands outside the try (the
\* no-wallet branch, the catch): when it throws, the handler ends there
ReferralNotified(h, ok) ==
  LET c == h IN
  /\ c.op = "start" /\ c.pc = "ref_notify"
  /\ UNCHANGED <<tasks, submissions, nextTaskId, nextSubmissionId, nextToken>>
  /\ IF ok
     THEN /\ CountReferral(c.uid, c.arg)
          /\ Finish(h, c, "sendMessage ok", "menu")
     ELSE /\ UNCHANGED <<users, audit>>
          /\ Finish(h, c, "sendMessage throws", "")

\* bot.start of the strict bot: creates the user, then its own await on isMember
StartStrictEnter(h, c) ==
  /\ UNCHANGED <<tasks, submissions, nextTaskId, nextSubmissionId, nextToken, audit>>
  /\ IF HasUser(c.uid) /\ users[c.uid].isBanned
     THEN /\ UNCHANGED users
          /\ Finish(h, c, "", "Your account is banned.")
     ELSE /\ users' = IF HasUser(c.uid) THEN users ELSE users @@ (c.uid :> NewUser)
          /\ Await(h, c, "st_pre", "")

StartStrictResumed(h, answer) ==
  LET c == h
      member == isMember(answer)
  IN
  /\ c.op = "start" /\ c.pc = "st_pre"
  /\ IF member /\ users[c.uid].deviceHash # NoHash
     THEN EnsureEnter(h, c, users)
     ELSE /\ UNCHANGED <<db, audit>>
          /\ Finish(h, c, MemberIo(answer),
                    "To use the bot, you must")

StartEnter(h, c) ==
  IF variant = "strict" THEN StartStrictEnter(h, c) ELSE EnsureEnter(h, c, users)

\* --------------------------------------------------------------- /verify
\* a helper that leaves a token already pending in place
KeepFirstPendingToken(table, userId, token) ==
  IF table[userId].pendingDeviceToken # 0 THEN table
  ELSE [table EXCEPT ![userId].pendingDeviceToken = token]

\* storage.setPendingDeviceToken: u.pendingDeviceToken = token
setPendingDeviceToken(table, userId, token) ==
  [table EXCEPT ![userId].pendingDeviceToken = token]

\* bot.command('verify'): a fresh token overwrites the pending one
VerifyEnter(h, c) ==
  /\ UNCHANGED <<tasks, submissions, nextTaskId, nextSubmissionId, audit>>
  /\ IF HasUser(c.uid) /\ users[c.uid].isBanned
     THEN /\ UNCHANGED <<users, nextToken>>
          /\ Finish(h, c, "", "Your account is banned.")
     ELSE /\ users' = setPendingDeviceToken(
               IF HasUser(c.uid) THEN users ELSE users @@ (c.uid :> NewUser),
               c.uid, nextToken)
          /\ nextToken' = nextToken + 1
          /\ Finish(h, c, "", "Open this link")

\* -------------------------------------------------------------- /device
\* sha256 of "<user agent>|<first two groups of the address>": one digest per
\* such pair
computeDeviceHash(userAgent, ip) ==
  <<userAgent>> \o SubSeq(ip, 1, IF Len(ip) < 2 THEN Len(ip) ELSE 2)

\* a check that bans whenever the hash is on record, the caller's own included
CollidesWithAnyone(otherUid, userId) == otherUid # 0

\* a check that never bans
CollidesNever(otherUid, userId) == FALSE

\* whether the callback bans the caller: the scan found the hash on another user
Collides(otherUid, userId) == otherUid # 0 /\ otherUid # userId

\* a helper that forgets to clear
KeepPendingDeviceToken(table, userId) == table

\* a helper that clears only for a user who was not banned
ClearUnlessBanned(table, userId) ==
  IF table[userId].isBanned THEN table
  ELSE [table EXCEPT ![userId].pendingDeviceToken = 0]

\* storage.clearPendingDeviceToken, applied to the table just written
clearPendingDeviceToken(table, userId) ==
  [table EXCEPT ![userId].pendingDeviceToken = 0]

\* a success path that resets the ban flag
LinkDeviceAndUnban(table, userId, deviceHash) ==
  [table EXCEPT ![userId].deviceHash = deviceHash, ![userId].isBanned = FALSE]

\* the success path: user.deviceHash = deviceHash;
\* user.isBanned = user.isBanned || false
LinkDevice(table, userId, deviceHash) ==
  [table EXCEPT ![userId].deviceHash = deviceHash,
                ![userId].isBanned = (@ \/ FALSE)]

\* the /device endpoint, which runs from the token lookup to the store writes
\* without an await
DeviceRequest(token, userAgent, ip) ==
  LET userId == findUserByPendingToken(token)
      deviceHash == computeDeviceHash(userAgent, ip)
      otherUid == findUserByDeviceHash(deviceHash)
      step == [NoStep EXCEPT !.op = "device", !.pc = "http", !.arg = token,
                             !.uid = userId, !.fp = deviceHash]
  IN
  /\ UNCHANGED <<tasks, submissions, nextTaskId, nextSubmissionId, nextToken, handlers>>
  /\ IF userId = 0
     THEN /\ UNCHANGED <<users, audit>>
          /\ last' = [step EXCEPT !.text = "Invalid or expired token"]
     ELSE /\ audit' = [audit EXCEPT !.resolved = @ \cup {token}]
          /\ IF Collides(otherUid, userId)
             THEN /\ users' = clearPendingDeviceToken(
                       [users EXCEPT ![userId].deviceHash = deviceHash,
                                     ![userId].isBanned = TRUE], userId)
                  /\ last' = [step EXCEPT !.text = "Collision"]
             ELSE /\ users' = clearPendingDeviceToken(
                       LinkDevice(users, userId, deviceHash), userId)
                  /\ last' = [step EXCEPT !.text = "Linked"]

\* ----------------------------------------------------------- middleware
Dispatch(h, c) ==
  CASE c.op = "start" -> StartEnter(h, c)
    [] c.op = "verify" -> VerifyEnter(h, c)
    [] c.op = "wallet" -> WalletEnter(h, c)
    [] c.op = "submit" -> SubmitEnter(h, c)
    [] c.op = "callback" -> CallbackEnter(h, c)
    [] c.op = "withdraw" -> WithdrawEnter(h, c)
    [] c.op = "admin" -> AdminEnter(h, c)

\* bot.use: admins bypass; index.js and its twin let /start and /verify through
\* and await isMember for the rest; the strict bot turns a banned user away and
\* awaits isMember for every update
Middleware(h, c) ==
  IF c.uid \in ADMIN_IDS THEN Dispatch(h, c)
  ELSE IF variant # "strict"
  THEN IF c.op \in {"start", "verify"} THEN Dispatch(h, c)
       ELSE /\ UNCHANGED <<db, audit>>
            /\ Await(h, c, "mw", "")
  ELSE IF HasUser(c.uid) /\ users[c.uid].isBanned
  THEN /\ UNCHANGED <<db, audit>>
       /\ Finish(h, c, "", "Your account is banned.")
  ELSE /\ UNCHANGED <<db, audit>>
       /\ Await(h, [c EXCEPT !.hadUser = HasUser(c.uid)], "mw", "")

\* a gate that looks at membership only
BlockedNonMembersOnly(member, verified) == ~member

\* if (!member || !verified): the update stops in the middleware
Blocked(member, verified) == ~member \/ ~verified

\* what the middleware reads as `verified` once isMember has answered
VerifiedAtGate(c) ==
  IF variant = "strict"
  THEN c.hadUser /\ users[c.uid].deviceHash # NoHash
  ELSE HasUser(c.uid) /\ users[c.uid].deviceHash # NoHash

MiddlewareResumed(h, answer) ==
  LET c == h
      member == isMember(answer)
      verified == VerifiedAtGate(c)
  IN
  /\ c.pc = "mw"
  /\ IF ~Blocked(member, verified) THEN Dispatch(h, c)
     ELSE IF variant = "strict" /\ c.op = "verify" THEN Dispatch(h, c)
     ELSE /\ UNCHANGED <<db, audit>>
          /\ Finish(h, c, MemberIo(answer), "Access blocked.")

\* an update reaches the bot and runs to its first await
Arrive(op, uid, arg, act) ==
  /\ nUpdates < MaxUpdates
  /\ nUpdates' = nUpdates + 1
  /\ UNCHANGED variant
  /\ BagCardinality(handlers) < MaxInflight
  /\ Middleware(Idle, [Idle EXCEPT !.op = op, !.pc = "arrive", !.uid = uid,
                                   !.arg = arg, !.act = act])


\* -------------------------------------------------------------- actions
\* the updates that reach the bot
StartCmd(uid, refCode) == Arrive("start", uid, refCode, "")
VerifyCmd(uid) == nextToken <= MaxTokens /\ Arrive("verify", uid, 0, "")
WalletCmd(uid) == Arrive("wallet", uid, 0, "")
SubmitCmd(uid, taskId) == Len(submissions) < MaxSubs /\ Arrive("submit", uid, taskId, "")
WithdrawCmd(uid) == Arrive("withdraw", uid, 0, "")
Click(uid, act, sid) == Arrive("callback", uid, sid, act)
AdminCmd(uid, act, arg) == Arrive("admin", uid, arg, act)

DeviceCallback(token, userAgent, ip) ==
  /\ nUpdates < MaxUpdates
  /\ nUpdates' = nUpdates + 1
  /\ UNCHANGED variant
  /\ DeviceRequest(token, userAgent, ip)

\* the awaits that resolve
MiddlewareStep ==
  \E h \in Waiting, answer \in ChatMemberAnswers :
    MiddlewareResumed(h, answer) /\ UNCHANGED <<variant, nUpdates>>

CallbackStep ==
  \E h \in Waiting, answer \in ChatMemberAnswers :
    CallbackStrictResumed(h, answer) /\ UNCHANGED <<variant, nUpdates>>

NotifyStep ==
  \E h \in Waiting, ok \in BOOLEAN :
    DecisionNotified(h, ok) /\ UNCHANGED <<variant, nUpdates>>

BroadcastStep ==
  \E h \in Waiting, ok \in BOOLEAN :
    BroadcastAnswered(h, ok) /\ UNCHANGED <<variant, nUpdates>>

ReviewStep ==
  \E h \in Waiting, ok \in BOOLEAN :
    ReviewAnswered(h, ok) /\ UNCHANGED <<variant, nUpdates>>

WithdrawCheckStep ==
  \E h \in Waiting, r \in CheckBalanceResults :
    WithdrawChecked(h, r) /\ UNCHANGED <<variant, nUpdates>>

WithdrawSendStep ==
  \E h \in Waiting, ok \in BOOLEAN :
    WithdrawSent(h, ok) /\ UNCHANGED <<variant, nUpdates>>

StartPreStep ==
  \E h \in Waiting, answer \in ChatMemberAnswers :
    StartStrictResumed(h, answer) /\ UNCHANGED <<variant, nUpdates>>

StartMemberStep ==
  \E h \in Waiting, answer \in ChatMemberAnswers :
    EnsureMember(h, answer) /\ UNCHANGED <<variant, nUpdates>>

StartReplyStep ==
  \E h \in Waiting, ok \in BOOLEAN :
    EnsureReplied(h, ok) /\ UNCHANGED <<variant, nUpdates>>

ReferralCheckStep ==
  \E h \in Waiting, r \in CheckBalanceResults :
    ReferralChecked(h, r) /\ UNCHANGED <<variant, nUpdates>>

ReferralSendStep ==
  \E h \in Waiting, ok \in BOOLEAN :
    ReferralSent(h, ok) /\ UNCHANGED <<variant, nUpdates>>

ReferralNotifyTryStep ==
  \E h \in Waiting, ok \in BOOLEAN :
    ReferralNotifiedInTry(h, ok) /\ UNCHANGED <<variant, nUpdates>>

ReferralNotifyStep ==
  \E h \in Waiting, ok \in BOOLEAN :
    ReferralNotified(h, ok) /\ UNCHANGED <<variant, nUpdates>>

\* a stored user who passed /verify, the device page and the wallet command
Verified(bal, hash, wallet) ==
  [NewUser EXCEPT !.balance = bal, !.deviceHash = hash, !.wallet = wallet]

NoBalance == [u \in Ids |-> 0]

InitCommon ==
  /\ variant \in Variants
  /\ handlers = EmptyBag
  /\ nUpdates = 0
  /\ last = NoStep
  /\ nextTaskId = 2
  /\ tasks = {1}
  /\ nextToken = 1

\* ------------------------------------------- withdrawals and task rewards
\* User 2 has earned a balance and recorded a device, has saved a wallet or
\* not yet, and has one submission waiting for the admin.
InitWithdraw ==
  /\ InitCommon
  /\ \E bal \in {180000, 200000, 500000}, wallet \in {"", "wallet"} :
       /\ users = (2 :> [Verified(bal, <<"ua", 10, 0>>, wallet) EXCEPT !.bonusClaimed = TRUE])
       /\ audit = AuditInit([NoBalance EXCEPT ![2] = bal])
  /\ submissions = <<[id |-> 1, userId |-> 2, taskId |-> 1, status |-> "pending",
                      processedBy |-> 0, processedAt |-> ""]>>
  /\ nextSubmissionId = 2

NextWithdraw ==
  \/ WithdrawCmd(2)
  \/ Click(1, "approve", 1)
  \/ MiddlewareStep
  \/ CallbackStep
  \/ NotifyStep
  \/ WithdrawCheckStep
  \/ WithdrawSendStep

SpecWithdraw == InitWithdraw /\ [][NextWithdraw]_vars


\* C1: the transfers /withdraw made to a user never add up to more than was
\* credited to that user's balance (the same balance is never sent twice).
C1_NoDoubleTransfer ==
  \A u \in Ids : audit.paidOut[u] <= audit.credited[u]

\* C2: a /withdraw step writes no user record unless it is the step in which
\* sendTON succeeded, so a call that ends in a rail failure (checkBalance or
\* sendTON throws) leaves the stored balance as it was; that call is answered
\* with the rail error.
C2_RailFailureKeepsBalance ==
  [][last'.op = "withdraw" =>
       /\ (last'.io # "sendTON ok" => users' = users)
       /\ (last'.io \in {"checkBalance throws", "sendTON throws"}
             => last'.text = "Withdrawal failed")]_vars

\* a transfer just failed for a user whose balance is still there
C2_Witness ==
  /\ last.op = "withdraw"
  /\ last.io = "sendTON throws"
  /\ users[2].balance = 500000


\* the step in which bot.command('withdraw') itself starts for a non-admin: the
\* middleware has let the update through
WithdrawStarts(step) ==
  /\ step.op = "withdraw" /\ step.pc = "mw"
  /\ step.text # "Access blocked."

\* C13 as stated: a /withdraw of a user whose balance is below MIN_WITHDRAWAL
\* is refused as insufficient balance, with no rail call and no write.
C13_BelowMinimumRefusedAsInsufficient ==
  [][(WithdrawStarts(last') /\ users[last'.uid].balance < MIN_WITHDRAWAL)
       => (/\ last'.text = "Minimum withdrawal"
           /\ db' = db
           /\ \E h \in Waiting : handlers' = handlers (-) SetToBag({h}))]_vars

\* C13 amended: such a /withdraw makes no rail call (the handler ends in that
\* step) and writes nothing; it is refused as insufficient balance when the
\* user is not banned and has a wallet, and with the wallet hint when no wallet
\* is set.
C13_BelowMinimumNoRailNoWrite ==
  [][(WithdrawStarts(last') /\ users[last'.uid].balance < MIN_WITHDRAWAL)
       => (/\ db' = db
           /\ \E h \in Waiting : handlers' = handlers (-) SetToBag({h})
           /\ last'.io = ""
           /\ last'.text =
                IF users[last'.uid].isBanned THEN "Your account is banned."
                ELSE IF users[last'.uid].wallet = "" THEN "Set your TON wallet first"
                ELSE "Minimum withdrawal")]_vars

\* a user with a wallet and 0.18 TON has just been refused
C13_Witness ==
  /\ last.op = "withdraw" /\ last.text = "Minimum withdrawal"
  /\ users[2].balance = 180000 /\ users[2].wallet = "wallet"
  /\ audit.paidOut[2] = 0


\* ------------------------------------------------------------ decisions
\* User 2 is a verified non-admin; the admin (user 1) may never have sent
\* /start or /verify, and then has no record.
InitDecide ==
  /\ InitCommon
  /\ \E known \in {{2}, {1, 2}} :
       users = [u \in known |-> Verified(0, <<"ua", 10, u>>, "")]
  /\ audit = AuditInit(NoBalance)
  /\ submissions = <<>>
  /\ nextSubmissionId = 1

AdminStep == \E u \in {1, 2}, s \in SubIds : AdminCmd(u, "approve", s)

NextDecide ==
  \/ \E u \in {1, 2} : SubmitCmd(u, 1)
  \/ \E u \in {1, 2}, act \in {"approve", "reject"}, s \in SubIds : Click(u, act, s)
  \/ AdminStep
  \/ MiddlewareStep
  \/ CallbackStep
  \/ NotifyStep
  \/ ReviewStep

SpecDecide == InitDecide /\ [][NextDecide]_vars

StatusOf(s) == submissions[getSubmission(s)].status

\* The review of submissions by the admin alone: user 2 submits for task 1,
\* user 1 decides by button or by '/admin approve'.
InitReview ==
  /\ InitCommon
  /\ users = [u \in {1, 2} |-> Verified(0, <<"ua", 10, u>>, "")]
  /\ audit = AuditInit(NoBalance)
  /\ submissions = <<>>
  /\ nextSubmissionId = 1

NextReview ==
  \/ SubmitCmd(2, 1)
  \/ \E act \in {"approve", "reject"}, s \in SubIds : Click(1, act, s)
  \/ \E s \in SubIds : AdminCmd(1, "approve", s)
  \/ MiddlewareStep
  \/ CallbackStep
  \/ NotifyStep
  \/ ReviewStep

SpecReview == InitReview /\ [][NextReview]_vars

DecisionInFlight(s) ==
  \E h \in Waiting : h.op \in {"callback", "admin"} /\ h.arg = s

\* C3: once two approve decisions by the admin on a submission have run and none
\* is still in flight (and no reject took it), the submission is Approved and
\* its reward was credited exactly once.
C3_DoubleApproveCreditsOnce ==
  \A s \in SubIds :
    (getSubmission(s) # 0 /\ audit.approves[s] >= 2 /\ ~DecisionInFlight(s)
       /\ StatusOf(s) # "rejected")
      => (StatusOf(s) = "approved" /\ audit.reward[s] = 1)

\* C4: of two admin decisions on the same submission exactly one performs the
\* Pending-to-terminal transition.
C4_ExactlyOneDecisionWins ==
  \A s \in SubIds :
    audit.approves[s] + audit.rejects[s] >= 2 => audit.won[s] = 1

\* C6: a submission that left Pending was decided by an actor in ADMIN_IDS.
C6_OnlyAdminsDecide ==
  \A i \in 1..Len(submissions) :
    submissions[i].status # "pending" => submissions[i].processedBy \in ADMIN_IDS

\* C23: a submission is stored Pending with no processedBy or processedAt; a
\* step that changes a stored submission takes it from Pending to Approved or
\* Rejected; a submission that is not Pending never changes again; and
\* processedBy and processedAt are set exactly when the status is not Pending.
C23_DecidedOnceThenFrozen ==
  /\ [](\A i \in 1..Len(submissions) :
          /\ submissions[i].status \in {"pending", "approved", "rejected"}
          /\ (submissions[i].status = "pending") =
               (submissions[i].processedBy = 0 /\ submissions[i].processedAt = ""))
  /\ [][/\ Len(submissions') >= Len(submissions)
        /\ \A i \in 1..Len(submissions') :
             IF i > Len(submissions)
             THEN submissions'[i].status = "pending"
             ELSE /\ (submissions[i].status # "pending"
                        => submissions'[i] = submissions[i])
                  /\ (submissions'[i] # submissions[i]
                        => submissions'[i].status \in {"approved", "rejected"})]_vars

\* a reject that came after an approve has just been refused
C23_Witness ==
  /\ last.op = "callback" /\ last.act = "reject"
  /\ last.text = "Already processed."
  /\ getSubmission(last.arg) # 0
  /\ StatusOf(last.arg) = "approved"

\* the step in which an admin's click runs the decision: at once in index.js
\* and its twin, after the await on isMember in the strict bot
AdminDecides(step) ==
  /\ step.op = "callback"
  /\ step.uid \in ADMIN_IDS
  /\ step.pc = (IF variant = "strict" THEN "cb_member" ELSE "arrive")

\* C24: an admin's reject of a Pending submission stores status Rejected with
\* processedBy and processedAt, and changes no user record.
C24_RejectHasNoLedgerEffect ==
  [][(/\ AdminDecides(last')
      /\ last'.act = "reject"
      /\ getSubmission(last'.arg) # 0
      /\ submissions[getSubmission(last'.arg)].status = "pending")
       => (LET i == getSubmission(last'.arg)
           IN /\ submissions' = [submissions EXCEPT ![i] =
                   [@ EXCEPT !.status = "rejected", !.processedBy = last'.uid,
                             !.processedAt = "now"]]
              /\ users' = users)]_vars

\* the admin has just rejected user 2's submission
C24_Witness ==
  /\ AdminDecides(last) /\ last.act = "reject"
  /\ getSubmission(last.arg) # 0
  /\ StatusOf(last.arg) = "rejected"
  /\ submissions[getSubmission(last.arg)].userId = 2
  /\ users[2].balance = 0

\* C25: when the notification to the submitter fails, that step writes nothing:
\* the submission stays as decided and the reward, credited once, stays
\* credited; no submission's reward is ever credited twice.
C25_NotifyFailureKeepsDecision ==
  /\ [](\A s \in SubIds : audit.reward[s] <= 1)
  /\ [][(last'.pc = "dec_notify" /\ last'.io = "sendMessage throws")
         => (/\ db' = db
             /\ audit' = audit
             /\ getSubmission(last'.arg) # 0
             /\ StatusOf(last'.arg) \in {"approved", "rejected"}
             /\ (StatusOf(last'.arg) = "approved") = (audit.reward[last'.arg] = 1))]_vars

\* the submitter could not be told of the approval, which stands
C25_Witness ==
  /\ last.pc = "dec_notify" /\ last.io = "sendMessage throws"
  /\ StatusOf(last.arg) = "approved"
  /\ users[2].balance = TASK_REWARD

\* ----------------------------------------------------- /start, referrals
\* User 1 (the admin) is a referrer with or without a wallet; user 3 is a
\* referrer with a wallet, or has never used the bot and has no record; user 2
\* is the new user, verified, with the bonus not yet claimed.
InitStart ==
  /\ InitCommon
  /\ \E w1 \in {"", "wallet"}, known3 \in BOOLEAN :
       users = [u \in (IF known3 THEN {1, 2, 3} ELSE {1, 2}) |->
                  Verified(0, <<"ua", 10, u>>,
                           IF u = 1 THEN w1 ELSE IF u = 3 THEN "wallet" ELSE "")]
  /\ audit = AuditInit(NoBalance)
  /\ submissions = <<>>
  /\ nextSubmissionId = 1

NextStart ==
  \/ \E refCode \in {0, 1, 2, 3} : StartCmd(2, refCode)
  \/ MiddlewareStep
  \/ StartPreStep
  \/ StartMemberStep
  \/ StartReplyStep
  \/ ReferralCheckStep
  \/ ReferralSendStep
  \/ ReferralNotifyTryStep
  \/ ReferralNotifyStep

SpecStart == InitStart /\ [][NextStart]_vars

StartInFlight(n) == \E h \in Waiting : h.op = "start" /\ h.uid = n

\* C5: the new-user bonus is added to a user's balance at most once, and
\* bonusClaimed is true from that credit on.
C5_BonusAtMostOnce ==
  \A u \in DOMAIN users :
    /\ audit.bonus[u] <= 1
    /\ (audit.bonus[u] = 1 => users[u].bonusClaimed)
    /\ (~users[u].bonusClaimed => audit.bonus[u] = 0)

\* two /start handlers of user 2 are past isMember together, one bonus credited
C5_Witness ==
  /\ audit.bonus[2] = 1
  /\ BagCardinality(handlers) = 2
  /\ \A h \in Waiting : h.op = "start" /\ h.uid = 2 /\ h.pc \in {"st_reply", "st_back"}

\* C9: once a new user's /start handlers are done, only the referrer recorded
\* in referredBy had a counter or balance changed by the attribution, and that
\* referrer's counter went up by exactly one per user it referred.
C9_AttributionSingleShot ==
  \A n \in DOMAIN users :
    ~StartInFlight(n) =>
      LET r == users[n].referredBy IN
      IF r = 0 THEN audit.refTo[n] = {}
      ELSE /\ audit.refTo[n] \subseteq {r}
           /\ users[r].referrals =
                Cardinality({m \in DOMAIN users : users[m].referredBy = r})

\* C10: every attribution that set referredBy incremented the referral counter
\* exactly once, whatever the payout path and the fate of the notification.
C10_CounterOncePerAttribution ==
  \A n \in DOMAIN users :
    (users[n].referredBy # 0 /\ ~StartInFlight(n)) => audit.refIncs[n] = 1

\* C17: referredBy is written only by the /start that credited the new-user
\* bonus, that is, by the handler resumed from the reply announcing the bonus;
\* a /start that answered 'Welcome back!' attributes nobody.
C17_AttributionOnlyWithBonus ==
  [][\A n \in DOMAIN users :
       (n \in DOMAIN users' /\ users'[n].referredBy # users[n].referredBy)
         => (last'.op = "start" /\ last'.uid = n /\ last'.pc = "st_reply")]_vars

\* /start of user 2 with no code, its own id, the id of the stored user 1
\* (who has a wallet) or the id 3 of no stored user
InitNoRef ==
  /\ InitCommon
  /\ users = [u \in {1, 2} |->
               Verified(0, <<"ua", 10, u>>, IF u = 1 THEN "wallet" ELSE "")]
  /\ audit = AuditInit(NoBalance)
  /\ submissions = <<>>
  /\ nextSubmissionId = 1

NextNoRef ==
  \/ \E refCode \in {0, 1, 2, 3} : StartCmd(2, refCode)
  \/ MiddlewareStep
  \/ StartPreStep
  \/ StartMemberStep
  \/ StartReplyStep
  \/ ReferralCheckStep
  \/ ReferralSendStep
  \/ ReferralNotifyTryStep
  \/ ReferralNotifyStep

SpecNoRef == InitNoRef /\ [][NextNoRef]_vars

\* C18: when the referral block is reached with no code, the sender's own id,
\* the id of no stored user, or with referredBy already set, the step changes
\* no user record (no referredBy, counter or balance), pays nobody and ends
\* the handler without a rail call.
C18_NoOpAttribution ==
  [][(/\ last'.op = "start"
      /\ last'.pc \in {"st_reply", "st_back"}
      /\ \/ last'.arg = 0
         \/ last'.arg = last'.uid
         \/ ~HasUser(last'.arg)
         \/ users[last'.uid].referredBy # 0)
       => (/\ users' = users
           /\ audit' = audit
           /\ \E h \in Waiting : handlers' = handlers (-) SetToBag({h}))]_vars

\* a /start carrying the id of a user without a record, and one carrying the
\* sender's own id, have ended at the menu with nobody attributed
C18_Witness ==
  /\ last.op = "start" /\ last.text = "menu"
  /\ last.arg \in {2, 3} /\ ~HasUser(3)
  /\ users[2].referredBy = 0
  /\ users[2].bonusClaimed

\* C16: a new user's attribution pays the referrer exactly once: never both a
\* rail transfer and a ledger credit, never two ledger credits, and one payment
\* once the attributing /start is done.
C16_ReferrerPaidOnce ==
  \A n \in DOMAIN users :
    /\ audit.refRail[n] + audit.refLedger[n] <= 1
    /\ (users[n].referredBy # 0 /\ ~StartInFlight(n))
         => audit.refRail[n] + audit.refLedger[n] = 1

\* ------------------------------------------------- tokens, fingerprints
Addresses == {<<10, 0, 0, 1>>, <<10, 0, 7, 7>>, <<10, 9, 0, 1>>}

\* Users 2 and 3 have sent /start and have no device yet; or one of them has
\* linked the device <<"ua", 10, 0>> and the other was banned for presenting
\* the same device afterwards, so that both records carry its hash.
InitDevice ==
  /\ InitCommon
  /\ \E first \in {0, 2, 3} :
       users = [u \in {2, 3} |->
                  IF first = 0 THEN NewUser
                  ELSE [NewUser EXCEPT !.deviceHash = <<"ua", 10, 0>>,
                                       !.isBanned = (u # first)]]
  /\ audit = AuditInit(NoBalance)
  /\ submissions = <<>>
  /\ nextSubmissionId = 1

NextDevice ==
  \/ \E u \in {2, 3} : VerifyCmd(u)
  \/ \E token \in 1..MaxTokens, ip \in Addresses : DeviceCallback(token, "ua", ip)
  \/ \E u \in {2, 3} : AdminCmd(1, "ban", u)
  \/ MiddlewareStep

SpecDevice == InitDevice /\ [][NextDevice]_vars

HoldersOf(f, table) == {k \in DOMAIN table : table[k].deviceHash = f}

\* C7 as stated: registering a fingerprint nobody else holds ends Linked with
\* the caller not banned.
C7_LinkedMeansNotBanned ==
  [][(last'.op = "device" /\ last'.uid # 0
        /\ HoldersOf(last'.fp, users) \ {last'.uid} = {})
       => (last'.text = "Linked" /\ ~users'[last'.uid].isBanned)]_vars

\* C7 amended: registering a fingerprint nobody else holds ends Linked with the
\* caller's isBanned left as it was; registering one that another user holds,
\* by a caller who does not hold it yet, ends Collision with the caller's
\* deviceHash set and the caller banned; every other record is unchanged.
C7_LinkThenCollide ==
  [][(last'.op = "device" /\ last'.uid # 0) =>
       LET a == last'.uid
           f == last'.fp
           others == HoldersOf(f, users) \ {a}
       IN /\ others = {} =>
               /\ last'.text = "Linked"
               /\ users'[a].deviceHash = f
               /\ users'[a].isBanned = users[a].isBanned
          /\ (others # {} /\ users[a].deviceHash # f) =>
               /\ last'.text = "Collision"
               /\ users'[a].deviceHash = f
               /\ users'[a].isBanned
          /\ \A k \in DOMAIN users \ {a} : users'[k] = users[k]]_vars

\* user 3 has just collided with user 2, who linked first and is not banned
C7_Witness ==
  /\ last.op = "device" /\ last.text = "Collision" /\ last.uid = 3
  /\ users[2].deviceHash = last.fp
  /\ ~users[2].isBanned
  /\ users[3].isBanned

\* C8: a /device request carrying a token that an earlier request resolved
\* is rejected as invalid and writes nothing.
C8_TokenSingleUse ==
  [][(last'.op = "device" /\ last'.arg \in audit.resolved)
       => (last'.text = "Invalid or expired token" /\ users' = users)]_vars

\* a resolved token was presented again and refused
C8_Witness ==
  /\ last.op = "device"
  /\ last.arg \in audit.resolved
  /\ last.text = "Invalid or expired token"
  /\ \E u \in DOMAIN users : users[u].isBanned

\* C21: a /device request that resolves its token to user U ends in Collision,
\* with U banned, exactly when the fingerprint is the deviceHash of some user
\* other than U, and in Linked otherwise.
C21_CollisionIffOtherHolder ==
  [][(last'.op = "device" /\ last'.uid # 0) =>
       (LET others == HoldersOf(last'.fp, users) \ {last'.uid}
        IN /\ (others # {} => (last'.text = "Collision" /\ users'[last'.uid].isBanned))
           /\ (others = {} => last'.text = "Linked"))]_vars

\* C22: on Linked the caller's record changes in deviceHash and in the pending
\* token only (isBanned keeps its value), and no other record changes.
C22_LinkedKeepsBan ==
  [][(last'.op = "device" /\ last'.text = "Linked") =>
       (/\ users'[last'.uid] = [users[last'.uid] EXCEPT !.deviceHash = last'.fp,
                                                        !.pendingDeviceToken = 0]
        /\ \A k \in DOMAIN users \ {last'.uid} : users'[k] = users[k])]_vars

\* a user banned by the admin after /verify has just linked a device
C22_Witness ==
  /\ last.op = "device" /\ last.text = "Linked"
  /\ users[last.uid].isBanned
  /\ users[last.uid].deviceHash = last.fp
  /\ last.fp # <<"ua", 10, 0>>

\* the tokens that resolve to user u in the user table `table`
LiveTokens(u, table) ==
  {t \in 1..(nextToken - 1) : table[u].pendingDeviceToken = t}

\* C19: a /verify that issues a token leaves the user with the fresh token as
\* the only one resolving to that user, and the token it replaced resolves to
\* nobody; a /device request carrying a token that no user holds is rejected
\* as invalid and writes nothing, and one carrying a held token resolves to
\* its holder; no user ever has two live tokens.
C19_NewTokenInvalidatesOld ==
  /\ [](\A u \in DOMAIN users : Cardinality(LiveTokens(u, users)) <= 1)
  /\ [][((last'.op = "verify" /\ last'.text = "Open this link") =>
           (LET u == last'.uid
                old == IF HasUser(u) THEN users[u].pendingDeviceToken ELSE 0
            IN /\ users'[u].pendingDeviceToken = nextToken
               /\ \A k \in DOMAIN users' :
                    /\ (users'[k].pendingDeviceToken = nextToken => k = u)
                    /\ (old # 0 => users'[k].pendingDeviceToken # old)))
         /\
         ((last'.op = "device") =>
           (LET holders == {k \in DOMAIN users :
                             users[k].pendingDeviceToken = last'.arg}
            IN /\ (holders = {} =>
                     (last'.text = "Invalid or expired token" /\ users' = users))
               /\ (holders # {} => last'.uid \in holders)))]_vars

\* user 2 ran /verify twice and the first token, never used before, has just
\* been presented and refused
C19_Witness ==
  /\ last.op = "device" /\ last.arg = 1
  /\ last.text = "Invalid or expired token"
  /\ 1 \notin audit.resolved
  /\ users[2].pendingDeviceToken = 2
  /\ users[3].pendingDeviceToken = 0

\* C20: a /device request that resolves its token to a user writes the
\* fingerprint and clears that user's pending token in the same step, whether
\* the outcome is Linked or Collision, so in no state is a resolved token
\* still pending for anyone.
C20_TokenConsumedWithWrite ==
  /\ [](\A u \in DOMAIN users : users[u].pendingDeviceToken \notin audit.resolved)
  /\ [][(last'.op = "device" /\ last'.uid # 0) =>
          /\ last'.text \in {"Linked", "Collision"}
          /\ users'[last'.uid].deviceHash = last'.fp
          /\ users'[last'.uid].pendingDeviceToken = 0
          /\ (last'.text = "Collision" => users'[last'.uid].isBanned)]_vars

\* a Collision has just consumed the colliding user's token
C20_Witness ==
  /\ last.op = "device" /\ last.text = "Collision"
  /\ last.arg \in audit.resolved
  /\ users[last.uid].isBanned
  /\ users[last.uid].pendingDeviceToken = 0
  /\ users[last.uid].deviceHash = last.fp

\* ------------------------------------------------------- access control
\* User 2 is a non-admin with a wallet and a balance, banned or not, with or
\* without a recorded device; whether 2 is in the channel is what isMember
\* answers at each check.
InitAccess ==
  /\ InitCommon
  /\ \E banned \in BOOLEAN, hash \in {NoHash, <<"ua", 10, 0>>} :
       users = (2 :> [Verified(500000, hash, "wallet") EXCEPT !.isBanned = banned,
                                                              !.bonusClaimed = TRUE])
  /\ audit = AuditInit([NoBalance EXCEPT ![2] = 500000])
  /\ submissions = <<>>
  /\ nextSubmissionId = 1

NextAccess ==
  \/ WalletCmd(2)
  \/ SubmitCmd(2, 1)
  \/ WithdrawCmd(2)
  \/ \E act \in {"approve", "show_balance"} : Click(2, act, 1)
  \/ MiddlewareStep
  \/ CallbackStep
  \/ NotifyStep
  \/ ReviewStep
  \/ WithdrawCheckStep
  \/ WithdrawSendStep

SpecAccess == InitAccess /\ [][NextAccess]_vars

\* C11: a step of /submit, /wallet or /withdraw taken for a non-admin whose
\* isBanned flag is set changes no user, task or submission record.
C11_BannedRunsNoCommand ==
  [][(/\ last'.op \in {"submit", "wallet", "withdraw"}
      /\ last'.uid \notin ADMIN_IDS
      /\ HasUser(last'.uid)
      /\ users[last'.uid].isBanned)
       => db' = db]_vars

\* C12: when the middleware resumes an update of a non-admin that is neither
\* /start nor /verify, and isMember answered no or the user has no recorded
\* deviceHash, the update stops there: no record changes and no handler runs.
C12_GateStopsUnverified ==
  [][\A h \in Waiting, answer \in ChatMemberAnswers :
       (/\ h.pc = "mw"
        /\ h.op \notin {"start", "verify"}
        /\ h.uid \notin ADMIN_IDS
        /\ (~isMember(answer) \/ ~HasUser(h.uid) \/ users[h.uid].deviceHash = NoHash)
        /\ MiddlewareResumed(h, answer))
         => (/\ db' = db
             /\ last'.text = "Access blocked."
             /\ handlers' = handlers (-) SetToBag({h}))]_vars

\* a /wallet of a user without a device has just been stopped although
\* isMember answered yes
C12_Witness ==
  /\ last.op = "wallet" /\ last.pc = "mw" /\ last.io = "member"
  /\ last.text = "Access blocked."
  /\ users[2].deviceHash = NoHash

\* --------------------------------------------------------------- ledger
\* Every operation that writes a balance, together: user 2 is verified with a
\* wallet, has not claimed the bonus yet and has a submission waiting; the
\* admin (user 1) is the referrer, with or without a wallet.
InitLedger ==
  /\ InitCommon
  /\ \E bal \in {0, 195000}, w1 \in {"", "wallet"} :
       /\ users = (1 :> Verified(0, <<"ua", 10, 1>>, w1))
                   @@ (2 :> Verified(bal, <<"ua", 10, 2>>, "wallet"))
       /\ audit = AuditInit([NoBalance EXCEPT ![2] = bal])
  /\ submissions = <<[id |-> 1, userId |-> 2, taskId |-> 1, status |-> "pending",
                      processedBy |-> 0, processedAt |-> ""]>>
  /\ nextSubmissionId = 2

NextLedger ==
  \/ \E refCode \in {0, 1} : StartCmd(2, refCode)
  \/ Click(1, "approve", 1)
  \/ WithdrawCmd(2)
  \/ MiddlewareStep
  \/ CallbackStep
  \/ NotifyStep
  \/ StartPreStep
  \/ StartMemberStep
  \/ StartReplyStep
  \/ ReferralCheckStep
  \/ ReferralSendStep
  \/ ReferralNotifyTryStep
  \/ ReferralNotifyStep
  \/ WithdrawCheckStep
  \/ WithdrawSendStep

SpecLedger == InitLedger /\ [][NextLedger]_vars

\* the same operations, user 2 starting 0.005 TON below the minimum and
\* every /start carrying the admin's referral code
InitBalance ==
  /\ InitLedger
  /\ users[2].balance = 195000

NextBalance ==
  \/ StartCmd(2, 1)
  \/ Click(1, "approve", 1)
  \/ WithdrawCmd(2)
  \/ MiddlewareStep
  \/ CallbackStep
  \/ NotifyStep
  \/ StartPreStep
  \/ StartMemberStep
  \/ StartReplyStep
  \/ ReferralCheckStep
  \/ ReferralSendStep
  \/ ReferralNotifyTryStep
  \/ ReferralNotifyStep
  \/ WithdrawCheckStep
  \/ WithdrawSendStep

SpecBalance == InitBalance /\ [][NextBalance]_vars

\* C14: every stored balance is greater than or equal to 0.
C14_BalanceNeverNegative ==
  \A u \in DOMAIN users : users[u].balance >= 0

\* the bonus was credited and a withdrawal then committed
C14_Witness ==
  /\ last.op = "withdraw" /\ last.io = "sendTON ok"
  /\ audit.bonus[2] = 1
  /\ audit.paidOut[2] >= MIN_WITHDRAWAL
  /\ users[2].balance = 0

\* C15: once no handler is in flight, a user's balance plus what /withdraw
\* transferred to that user equals what was credited to that user.
C15_NoCreditLost ==
  Quiet => \A u \in DOMAIN users :
             users[u].balance + audit.paidOut[u] = audit.credited[u]

\* ---------------------------------------------------------- submissions
\* User 2 is a verified non-admin; task 1 exists and the admin may add task 2.
InitSubmit ==
  /\ InitCommon
  /\ users = (2 :> Verified(0, <<"ua", 10, 2>>, ""))
  /\ audit = AuditInit(NoBalance)
  /\ submissions = <<>>
  /\ nextSubmissionId = 1

SubmitAny(uid, taskId) == Arrive("submit", uid, taskId, "")

NextSubmit ==
  \/ \E t \in {1, 2} : SubmitAny(2, t)
  \/ AdminCmd(1, "addtask", 0)
  \/ MiddlewareStep
  \/ ReviewStep

SpecSubmit == InitSubmit /\ [][NextSubmit]_vars

\* C26: /submit stores a submission only for a task that exists, and each
\* stored submission has an id greater than every id stored before it, so the
\* ids are pairwise distinct.
C26_SubmitNeedsTaskIdsGrow ==
  /\ [](\A i, j \in 1..Len(submissions) :
          /\ submissions[i].taskId \in tasks
          /\ (i < j => submissions[i].id < submissions[j].id))
  /\ [][(submissions' # submissions) =>
          (/\ last'.op = "submit"
           /\ getTask(last'.arg)
           /\ Len(submissions') = Len(submissions) + 1
           /\ SubSeq(submissions', 1, Len(submissions)) = submissions
           /\ submissions'[Len(submissions')].taskId = last'.arg
           /\ \A i \in 1..Len(submissions) :
                submissions[i].id < submissions'[Len(submissions')].id)]_vars

C26_Witness ==
  /\ Len(submissions) >= 2
  /\ last.op = "submit" /\ last.text = "Task not found."

\* the admins a review request for submission s was sent to
AskedOf(s) == {a \in Ids : <<s, a>> \in audit.asked}

SubmitRunning(s) == \E h \in Waiting : h.op = "submit" /\ h.sid = s

\* C27: whichever review requests fail, the submission created stays stored
\* as Pending, a failing request changes nothing in the store, and by the time
\* the /submit handler is done every admin has been sent the request.
C27_FanOutSurvivesFailures ==
  /\ [](\A s \in 1..(nextSubmissionId - 1) :
          /\ getSubmission(s) # 0
          /\ submissions[getSubmission(s)].status = "pending"
          /\ (~SubmitRunning(s) => AskedOf(s) = ADMIN_IDS))
  /\ [][(last'.pc = "sub_notify" /\ last'.io = "sendPhoto throws") =>
          (db' = db /\ audit.asked \subseteq audit'.asked)]_vars

\* the only /submit so far has ended after the request failed for every admin
C27_Witness ==
  /\ last.op = "submit" /\ last.text = "Submission received."
  /\ last.lost = Cardinality(ADMIN_IDS)
  /\ Len(submissions) = 1
  /\ getSubmission(1) # 0
  /\ ~SubmitRunning(1)
  /\ AskedOf(1) = ADMIN_IDS
\* ---------------------------------------------------------- eligibility
\* User 2 has a recorded device, a wallet and the bonus unclaimed; the admin
\* (user 1) has a record without a wallet and may ban user 2 at any time.
InitEligible ==
  /\ InitCommon
  /\ users = (1 :> Verified(0, <<"ua", 10, 1>>, ""))
              @@ (2 :> Verified(0, <<"ua", 10, 2>>, "wallet"))
  /\ audit = AuditInit(NoBalance)
  /\ submissions = <<>>
  /\ nextSubmissionId = 1

NextEligible ==
  \/ \E refCode \in {0, 1} : StartCmd(2, refCode)
  \/ WalletCmd(2)
  \/ AdminCmd(1, "ban", 2)
  \/ MiddlewareStep
  \/ StartPreStep
  \/ StartMemberStep
  \/ StartReplyStep
  \/ ReferralNotifyStep

SpecEligible == InitEligible /\ [][NextEligible]_vars

\* -------------------------------------------------- membership, fail-closed
\* C28: when getChatMember throws or returns a status other than creator,
\* administrator or member, the step that resumes /start or the middleware
\* treats the user as not a member: the request ends there with the store and
\* the ledger as they were (no bonus, no attribution, no command run).
C28_MembershipFailClosed ==
  [][\A h \in Waiting, answer \in ChatMemberAnswers :
       (/\ answer \notin {"creator", "administrator", "member"}
        /\ ~(variant = "strict" /\ h.op = "verify")
        /\ (\/ EnsureMember(h, answer)
            \/ StartStrictResumed(h, answer)
            \/ MiddlewareResumed(h, answer)))
         => (/\ db' = db
             /\ audit' = audit
             /\ handlers' = handlers (-) SetToBag({h})
             /\ last'.io \in {"not member", "getChatMember throws"})]_vars

\* the check threw for a /start of user 2, who has a recorded device and the
\* bonus still unclaimed
C28_Witness ==
  /\ last.op = "start" /\ last.uid = 2 /\ last.pc = "st_member"
  /\ last.io = "getChatMember throws"
  /\ users[2].deviceHash # NoHash
  /\ ~users[2].bonusClaimed
  /\ audit.bonus[2] = 0

\* C30: a step that credits the new-user bonus to a user, or records the
\* user's referrer, finds that user not banned and with a recorded deviceHash
\* in the store at that moment, and the bonus follows a positive answer of
\* isMember; so a user banned while /start awaited isMember gets neither.
C30_EligibleAtWriteTime ==
  [][\A n \in DOMAIN users :
       (\/ audit'.bonus[n] > audit.bonus[n]
        \/ users'[n].referredBy # users[n].referredBy)
         => (/\ ~users[n].isBanned
             /\ users[n].deviceHash # NoHash
             /\ last'.op = "start" /\ last'.uid = n
             /\ (audit'.bonus[n] > audit.bonus[n] => last'.io = "member"))]_vars
\* /start with referral codes, the referrers credited on the ledger
InitRefer ==
  /\ InitCommon
  /\ users = [u \in {1, 2, 3} |-> Verified(0, <<"ua", 10, u>>, "")]
  /\ audit = AuditInit(NoBalance)
  /\ submissions = <<>>
  /\ nextSubmissionId = 1

NextRefer ==
  \/ \E refCode \in {1, 2, 3} : StartCmd(2, refCode)
  \/ MiddlewareStep
  \/ StartPreStep
  \/ StartMemberStep
  \/ StartReplyStep
  \/ ReferralNotifyStep

SpecRefer == InitRefer /\ [][NextRefer]_vars

\* C29: every user's referredBy is unset or the id of another stored user,
\* and a referredBy that is set is never written again.
C29_ReferredByOtherAndFrozen ==
  /\ [](\A u \in DOMAIN users :
          \/ users[u].referredBy = 0
          \/ (users[u].referredBy # u /\ HasUser(users[u].referredBy)))
  /\ [][\A u \in DOMAIN users :
          (users[u].referredBy # 0) =>
            (u \in DOMAIN users' /\ users'[u].referredBy = users[u].referredBy)]_vars

\* user 2, referred by user 1, has sent /start again with user 3's code and
\* was shown the menu
C29_Witness ==
  /\ users[2].referredBy = 1
  /\ HasUser(3)
  /\ last.op = "start" /\ last.uid = 2 /\ last.arg = 3
  /\ last.text = "menu"
\* ----------------------------------------------- rewards and approvals
\* the task-reward credits applied to user u's balance
RECURSIVE RewardCredits(_, _)
RewardCredits(S, u) ==
  IF S = {} THEN 0
  ELSE LET s == CHOOSE x \in S : TRUE
           mine == getSubmission(s) # 0 /\ submissions[getSubmission(s)].userId = u
       IN (IF mine THEN audit.reward[s] ELSE 0) + RewardCredits(S \ {s}, u)

\* the submissions of user u that are Approved
ApprovedOf(u) ==
  {i \in 1..Len(submissions) :
     submissions[i].userId = u /\ submissions[i].status = "approved"}

\* C32: for every user the number of task-reward credits applied equals the
\* number of the user's Approved submissions, and no credit was applied for a
\* submission that is not stored.
C32_RewardsMatchApprovals ==
  /\ \A u \in Ids : RewardCredits(SubIds, u) = Cardinality(ApprovedOf(u))
  /\ \A s \in SubIds : (getSubmission(s) = 0 => audit.reward[s] = 0)

\* a second approve of user 2's Approved submission was turned away
C32_Witness ==
  /\ last.act = "approve"
  /\ last.text \in {"Already processed.", "Submission already processed."}
  /\ ApprovedOf(2) # {}
  /\ RewardCredits(SubIds, 2) = 1
  /\ users[2].balance = TASK_REWARD

\* ------------------------------------------- withdrawals, one at a time
\* The updates of SpecWithdraw, each arriving only when no handler is in
\* flight: every handler runs from its first step to its last undisturbed.
NextSolo ==
  \/ (Quiet /\ WithdrawCmd(2))
  \/ (Quiet /\ Click(1, "approve", 1))
  \/ MiddlewareStep
  \/ CallbackStep
  \/ NotifyStep
  \/ WithdrawCheckStep
  \/ WithdrawSendStep

SpecSolo == InitWithdraw /\ [][NextSolo]_vars

\* C31: /withdraw goes on to sendTON only for a user with a wallet and when
\* checkBalance reported at least the amount it is about to send; and a
\* /withdraw that runs alone and whose transfer succeeds has sent the user's
\* whole balance in that one transfer and stores balance 0.
C31_TransferGuardedAndFull ==
  /\ [][\A h \in Waiting, r \in CheckBalanceResults :
          (WithdrawChecked(h, r) /\ last'.io = "checkBalance ok")
            => (/\ users[h.uid].wallet # ""
                /\ r >= users[h.uid].balance
                /\ handlers' = SetToBag({[h EXCEPT !.pc = "wd_send",
                                                    !.amount = users[h.uid].balance]}))]_vars
  /\ [][(last'.op = "withdraw" /\ last'.io = "sendTON ok")
          => (/\ users[last'.uid].balance >= MIN_WITHDRAWAL
              /\ users'[last'.uid].balance = 0
              /\ audit'.paidOut[last'.uid] =
                   audit.paidOut[last'.uid] + users[last'.uid].balance)]_vars

\* user 2's whole balance, reward included, went out in one transfer
C31_Witness ==
  /\ last.op = "withdraw" /\ last.io = "sendTON ok"
  /\ users[2].balance = 0
  /\ audit.paidOut[2] = audit.credited[2]
  /\ audit.reward[1] = 1
\* what /withdraw tests before its first await
WithdrawAllowed(u) ==
  /\ HasUser(u)
  /\ ~users[u].isBanned
  /\ users[u].wallet # ""
  /\ users[u].balance >= MIN_WITHDRAWAL

\* C33: a /withdraw that ends on a rail error writes nothing to the store,
\* and a later /withdraw of the same user, running alone, is treated as any
\* other: with its preconditions met it goes to the rail, with the rail
\* reporting enough it sends the whole balance, and when the transfer
\* succeeds the stored balance is 0.
C33_FailureLeavesNoReservation ==
  /\ [][(last'.op = "withdraw"
          /\ last'.io \in {"checkBalance throws", "sendTON throws"})
          => (db' = db /\ last'.uid \in audit'.railFailed)]_vars
  /\ [][(WithdrawStarts(last') /\ last'.uid \in audit.railFailed
          /\ WithdrawAllowed(last'.uid))
          => (\E h \in BagToSet(handlers') :
                h.op = "withdraw" /\ h.uid = last'.uid /\ h.pc = "wd_check")]_vars
  /\ [][\A h \in Waiting, r \in CheckBalanceResults :
          (/\ h.uid \in audit.railFailed
           /\ r >= 0 /\ r >= users[h.uid].balance
           /\ WithdrawChecked(h, r))
            => (/\ last'.io = "checkBalance ok"
                /\ \E g \in BagToSet(handlers') :
                     g.pc = "wd_send" /\ g.amount = users[h.uid].balance)]_vars
  /\ [][(last'.op = "withdraw" /\ last'.io = "sendTON ok"
          /\ last'.uid \in audit.railFailed)
          => (/\ users'[last'.uid].balance = 0
              /\ audit'.paidOut[last'.uid] =
                   audit.paidOut[last'.uid] + users[last'.uid].balance)]_vars

\* user 2, whose earlier /withdraw ended on a rail error, has now been sent
\* the whole balance
C33_Witness ==
  /\ 2 \in audit.railFailed
  /\ last.op = "withdraw" /\ last.uid = 2 /\ last.io = "sendTON ok"
  /\ users[2].balance = 0
  /\ audit.paidOut[2] = audit.credited[2]
\* ------------------------------------------------------- admin commands
\* User 2 is a non-admin, banned or not, with or without a recorded device;
\* user 3 is a verified user with one submission waiting. Users 1 (the admin)
\* and 2 send the four /admin commands.
InitAdmin ==
  /\ InitCommon
  /\ \E banned \in BOOLEAN, hash \in {NoHash, <<"ua", 10, 2>>} :
       users = (2 :> [Verified(0, hash, "") EXCEPT !.isBanned = banned])
               @@ (3 :> Verified(0, <<"ua", 10, 3>>, ""))
  /\ audit = AuditInit(NoBalance)
  /\ submissions = <<[id |-> 1, userId |-> 3, taskId |-> 1, status |-> "pending",
                      processedBy |-> 0, processedAt |-> ""]>>
  /\ nextSubmissionId = 2

NextAdmin ==
  \/ \E u \in {1, 2} : AdminCmd(u, "broadcast", 0)
  \/ \E u \in {1, 2} : AdminCmd(u, "addtask", 0)
  \/ \E u \in {1, 2} : AdminCmd(u, "ban", 3)
  \/ \E u \in {1, 2} : AdminCmd(u, "approve", 1)
  \/ MiddlewareStep
  \/ NotifyStep
  \/ BroadcastStep

SpecAdmin == InitAdmin /\ [][NextAdmin]_vars

CleanHoldersOf(f) == {u \in HoldersOf(f, users) : ~users[u].isBanned}

\* C35: no fingerprint is recorded on two users who are both not banned.
C35_OneCleanHolder ==
  \A u, v \in DOMAIN users :
    (/\ u # v
     /\ users[u].deviceHash # NoHash
     /\ users[u].deviceHash = users[v].deviceHash)
      => (users[u].isBanned \/ users[v].isBanned)

\* user 2 has registered again the fingerprint that the banned user 3 holds
\* too, and is its only holder who is not banned
C35_Witness ==
  /\ last.op = "device" /\ last.uid = 2 /\ last.text = "Linked"
  /\ HoldersOf(last.fp, users) = {2, 3}
  /\ CleanHoldersOf(last.fp) = {2}
\* Every operation that writes a user record, run for and around user 2, who
\* has a balance, a wallet, a recorded device and a submission waiting, and is
\* banned from the start or gets banned by the admin or by a collision with
\* user 3's device.
InitBan ==
  /\ InitCommon
  /\ \E banned \in BOOLEAN :
       users = (2 :> [Verified(500000, <<"ua", 10, 0>>, "wallet")
                        EXCEPT !.isBanned = banned])
               @@ (3 :> Verified(0, <<"ua", 10, 9>>, ""))
  /\ audit = AuditInit([NoBalance EXCEPT ![2] = 500000])
  /\ submissions = <<[id |-> 1, userId |-> 2, taskId |-> 1, status |-> "pending",
                      processedBy |-> 0, processedAt |-> ""]>>
  /\ nextSubmissionId = 2

NextBan ==
  \/ StartCmd(2, 0)
  \/ VerifyCmd(2)
  \/ \E token \in 1..MaxTokens, ip \in {<<10, 0, 0, 1>>, <<10, 9, 0, 1>>} :
       DeviceCallback(token, "ua", ip)
  \/ WalletCmd(2)
  \/ WithdrawCmd(2)
  \/ Click(1, "approve", 1)
  \/ AdminCmd(1, "ban", 2)
  \/ MiddlewareStep
  \/ CallbackStep
  \/ NotifyStep
  \/ StartPreStep
  \/ StartMemberStep
  \/ StartReplyStep
  \/ WithdrawCheckStep
  \/ WithdrawSendStep

SpecBan == InitBan /\ [][NextBan]_vars

\* C36: no step removes a user record, and no step sets a user's isBanned
\* back to false.
C36_BanMonotoneUsersKept ==
  [][\A u \in DOMAIN users :
       /\ u \in DOMAIN users'
       /\ (users[u].isBanned => users'[u].isBanned)]_vars

\* the banned user 2 has registered a device again and is still banned
C36_Witness ==
  /\ last.op = "device" /\ last.uid = 2 /\ last.text = "Linked"
  /\ users[2].isBanned
\* C40: when /withdraw goes on to sendTON, the user is not banned at that
\* moment.
C40_NoTransferForBanned ==
  [][(last'.op = "withdraw" /\ last'.io = "checkBalance ok")
       => ~users[last'.uid].isBanned]_vars

\* -------------------------------------------- amounts sent to the rail
\* C37: whenever /withdraw goes on to sendTON, in any interleaving of the
\* user's /withdraw requests, the amount it sends is at least MIN_WITHDRAWAL.
C37_TransferAtLeastMinimum ==
  [][\A g \in BagToSet(handlers') :
       (last'.op = "withdraw" /\ last'.io = "checkBalance ok"
        /\ g.op = "withdraw" /\ g.pc = "wd_send" /\ g.uid = last'.uid)
         => g.amount >= MIN_WITHDRAWAL]_vars

\* ------------------------------------------- submissions and their users
\* C38: the userId of every stored submission is the id of a stored user.
C38_SubmitterHasRecord ==
  \A i \in 1..Len(submissions) : HasUser(submissions[i].userId)

\* ------------------------------------------------ registering F again
\* C39: a user who is not banned and holds fingerprint F, and registers F
\* again while every other holder of F is banned, ends Linked and stays not
\* banned.
C39_OwnerRelinks ==
  [][(/\ last'.op = "device" /\ last'.uid # 0
      /\ users[last'.uid].deviceHash = last'.fp
      /\ ~users[last'.uid].isBanned
      /\ \A k \in HoldersOf(last'.fp, users) \ {last'.uid} : users[k].isBanned)
       => (last'.text = "Linked" /\ ~users'[last'.uid].isBanned)]_vars
====
